---------------------------- MODULE Spec2Model ----------------------------
(***************************************************************************)
(* State-machine model of liquid-memory's multivector pipeline             *)
(* (src/src/vectorstore/qdrant_client.rs): the collection schema manager,  *)
(* the multivector record writer (upsert_points_multivector) and the       *)
(* dual-vector query coordinator (query_points_multivector), together with *)
(* the backing vector engine the client talks to.                          *)
(*                                                                         *)
(* One application task issues library calls one after the other.  The     *)
(* coordinator spawns two sub-tasks that run concurrently with it.  The    *)
(* engine is a separate process: it accepts a write into its log, applies  *)
(* it later, and answers queries from the records it has applied.          *)
(***************************************************************************)
EXTENDS Integers, Sequences, FiniteSets, TLC

(***************************************************************************)
(* Bounds of the model.                                                    *)
(***************************************************************************)
\* Number of upsert calls (and so of generated identifiers) in one behaviour.
MaxWrites == 2
\* Longest list of image paths, and of texts, given to ingest_multivector.
MaxPairs == 3

(***************************************************************************)
(* Sample inputs.                                                          *)
(***************************************************************************)
Names == {"c1"}
\* The collection names the processes that run side by side work on.
SharedNames == {"c1", "c2"}
\* The sizes (image, text) a collection is created with.
Sizes == {<<2, 2>>, <<2, 1>>}
\* Non-zero integer vectors of length 1 and 2; <<1, 0>> and <<0, 1>> are
\* orthogonal.
Vecs == {<<1>>, <<1, 0>>, <<0, 1>>}
Payloads == {"p1"}
\* Limits: none, fewer than the records a collection can hold here, as many.
Limits == {0, 1, 2}
Spaces == {"image", "text"}
\* The application processes that run next to the one the model follows.
Callers == {"a", "b"}

VARIABLES
    schema,     \* engine: collection name -> NoSchema or its named-vector sizes
    created,    \* history: the sizes the successful create call was given
    points,     \* engine: collection name -> the records applied (visible)
    wal,        \* engine: writes accepted but not applied yet, oldest first
    nextId,     \* source of fresh identifiers (Uuid::new_v4), counts upserts
    pc,         \* where the application task is
    call,       \* the arguments of the call in progress (or of the last one)
    req,        \* the upsert request in flight and what the engine made of it
    outcome,    \* how the last call ended: ok / err / panic, with its value
    task,       \* the two spawned sub-query tasks
    slot,       \* the two oneshot channels
    imgResp,    \* the coordinator's local image_response
    sent,       \* history: per collection, the arguments of every upsert the
                \* engine accepted, and whether the call returned Ok
    pre,        \* history: the collection's records when the upsert call began
    ing,        \* the locals of the ingest_multivector call in progress
    proc        \* the other application processes: where each one is

vars == <<schema, created, points, wal, nextId, pc, call, req, outcome,
          task, slot, imgResp, sent, pre, ing, proc>>

engineVars == <<schema, created, points, wal>>
queryVars == <<task, slot, imgResp>>

NoSchema == [image |-> 0, text |-> 0]
NoCall == [op |-> "none"]
NoReq == [status |-> "none"]
NoOutcome == [kind |-> "none"]
NoResp == [using |-> "none"]
NoIng == [st |-> "none"]
NoProc == [pc |-> "idle", outcome |-> NoOutcome, made |-> {}]

Ok(v) == [kind |-> "ok", value |-> v]
Err(e) == [kind |-> "err", err |-> e]
Panic == [kind |-> "panic"]

Min(a, b) == IF a <= b THEN a ELSE b

(***************************************************************************)
(* The engine: cosine ranking.                                             *)
(***************************************************************************)
RECURSIVE DotFrom(_, _, _)
DotFrom(a, b, i) ==
    IF i > Len(a) THEN 0 ELSE a[i] * b[i] + DotFrom(a, b, i + 1)

Dot(a, b) == DotFrom(a, b, 1)

\* cos(a, q) >= cos(b, q) for non-zero a, b, q of one length, in integers:
\* cos(a, q) = (a.q) / (|a| |q|), so compare (a.q)/|a| with (b.q)/|b|.
ScoreGE(a, b, q) ==
    LET x == Dot(a, q)
        y == Dot(b, q)
        na == Dot(a, a)
        nb == Dot(b, b)
    IN  IF x >= 0 /\ y >= 0 THEN x * x * nb >= y * y * na
        ELSE IF x >= 0 THEN TRUE
        ELSE IF y >= 0 THEN FALSE
        ELSE x * x * nb <= y * y * na

Range(f) == {f[i] : i \in DOMAIN f}

\* The answers the engine may give to a top-k query in one vector space: the
\* k best records, best first; which of several equally scored records it
\* keeps, and in which order, is the engine's choice.
TopK(S, using, q, k) ==
    LET C == {r \in S : using \in DOMAIN r.vectors}
        n == Min(k, Cardinality(C))
    IN  {h \in [1..n -> C] :
            /\ \A i, j \in 1..n : i < j =>
                  /\ h[i] # h[j]
                  /\ ScoreGE(h[i].vectors[using], h[j].vectors[using], q)
            /\ \A r \in C \ Range(h) : \A i \in 1..n :
                  ScoreGE(h[i].vectors[using], r.vectors[using], q)}

\* What a query request can come back with: the engine's answer, or a
\* transport failure.
QueryOutcomes(c, using, q, k) ==
    {Err("transport")} \cup
    (IF schema[c] = NoSchema THEN {Err("notfound")}
     ELSE IF Len(q) # schema[c][using] THEN {Err("schema")}
     ELSE {Ok([using |-> using, query |-> q, hits |-> h]) :
              h \in TopK(points[c], using, q, k)})

\* The engine's check of one point against the collection's schema.
ValidPoint(c, pt) ==
    /\ DOMAIN pt.vectors \subseteq Spaces
    /\ \A n \in DOMAIN pt.vectors : Len(pt.vectors[n]) = schema[c][n]

\* Upsert: a point replaces the record that has its identifier, if any.
RECURSIVE UpsertAll(_, _)
UpsertAll(S, pts) ==
    IF pts = <<>> THEN S
    ELSE UpsertAll({r \in S : r.id # Head(pts).id} \cup {Head(pts)}, Tail(pts))

(***************************************************************************)
(* The client (qdrant_client.rs).                                          *)
(***************************************************************************)
\* create_multivector_collection: the named-vector sizes it asks for.
CollectionSchemaSwapped(vector_size_img, vector_size_txt) ==
    [image |-> vector_size_txt, text |-> vector_size_img]

CollectionSchema(vector_size_img, vector_size_txt) ==
    [image |-> vector_size_img, text |-> vector_size_txt]

\* upsert_points_multivector: the identifier of the new point.
ContentDerivedId(vec_img, vec_txt, payload) ==
    Len(vec_img) + Len(vec_txt)

PointId(vec_img, vec_txt, payload) ==
    nextId

\* upsert_points_multivector: the one point it builds.
MultivectorPointSwapped(id, vec_img, vec_txt, payload) ==
    [id |-> id, vectors |-> [image |-> vec_txt, text |-> vec_img],
     payload |-> payload]

MultivectorPointImageOnly(id, vec_img, vec_txt, payload) ==
    [id |-> id, vectors |-> [image |-> vec_img], payload |-> payload]

MultivectorPoint(id, vec_img, vec_txt, payload) ==
    [id |-> id, vectors |-> [image |-> vec_img, text |-> vec_txt],
     payload |-> payload]

\* upsert_points_multivector: .wait(true)
UpsertNoWait == FALSE

UpsertWait == TRUE

\* upsert_points_multivector: the request it sends.
UpsertRequest(c, serial, vec_img, vec_txt, payload) ==
    [serial |-> serial,
     collection |-> c,
     points |-> <<MultivectorPoint(PointId(vec_img, vec_txt, payload),
                                   vec_img, vec_txt, payload)>>,
     wait |-> UpsertWait,
     status |-> "sent"]

\* query_points_multivector: what it does with limit before it spawns the
\* sub-queries: nothing; every limit is passed on.
LimitAcceptedPositive(limit) == limit > 0

LimitAccepted(limit) == TRUE

\* query_points_multivector: the request each spawned task sends.
SubQuerySameSpace(s, c, image_vector, text_vector, limit) ==
    [collection |-> c, using |-> "image", query |-> image_vector,
     limit |-> limit]

SubQueryAtLeastOne(s, c, image_vector, text_vector, limit) ==
    [collection |-> c,
     using |-> s,
     query |-> IF s = "image" THEN image_vector ELSE text_vector,
     limit |-> IF limit = 0 THEN 1 ELSE limit]

SubQuery(s, c, image_vector, text_vector, limit) ==
    [collection |-> c,
     using |-> s,
     query |-> IF s = "image" THEN image_vector ELSE text_vector,
     limit |-> limit]

\* query_points_multivector: both tasks are spawned, each with its request,
\* before the first await.
LaunchImageFirst(s, c, image_vector, text_vector, limit) ==
    IF s = "image"
    THEN [st |-> "pending",
          request |-> SubQuery(s, c, image_vector, text_vector, limit)]
    ELSE [st |-> "none"]

Launch(s, c, image_vector, text_vector, limit) ==
    [st |-> "pending", request |-> SubQuery(s, c, image_vector, text_vector, limit)]

\* The channel a task sends on: tx_img moves into the image task, tx_txt
\* into the text task.
SlotOfSwapped(s) == IF s = "image" THEN "text" ELSE "image"

SlotOf(s) == s

\* A spawned task after its query: .unwrap() panics on Err, which drops the
\* sender and closes the channel; on Ok the response is sent.
SlotAfterTaskDefault(res) ==
    IF res.kind = "ok" THEN [st |-> "full", val |-> res.value]
    ELSE [st |-> "full", val |-> [using |-> "none", query |-> <<>>, hits |-> <<>>]]

SlotAfterTaskLeak(res) ==
    IF res.kind = "ok" THEN [st |-> "full", val |-> res.value]
    ELSE [st |-> "empty"]

SlotAfterTask(res) ==
    IF res.kind = "ok" THEN [st |-> "full", val |-> res.value]
    ELSE [st |-> "closed"]

\* query_points_multivector: Ok((image_response, text_response))
ResultPairSwapped(image_response, text_response) ==
    <<text_response, image_response>>

ResultPair(image_response, text_response) ==
    <<image_response, text_response>>

(***************************************************************************)
(* Initial state: an engine with no collection, an idle application.       *)
(***************************************************************************)
Init ==
    /\ schema = [c \in Names |-> NoSchema]
    /\ created = [c \in Names |-> <<>>]
    /\ points = [c \in Names |-> {}]
    /\ wal = <<>>
    /\ nextId = 1
    /\ pc = "idle"
    /\ call = NoCall
    /\ req = NoReq
    /\ outcome = NoOutcome
    /\ task = [s \in Spaces |-> [st |-> "none"]]
    /\ slot = [s \in Spaces |-> [st |-> "none"]]
    /\ imgResp = NoResp
    /\ sent = [c \in Names |-> {}]
    /\ pre = {}
    /\ ing = NoIng
    /\ proc = [p \in Callers |-> NoProc]

\* A new call starts with fresh locals: those of the call before it are gone.
FreshLocals ==
    /\ req' = NoReq
    /\ task' = [s \in Spaces |-> [st |-> "none"]]
    /\ slot' = [s \in Spaces |-> [st |-> "none"]]
    /\ imgResp' = NoResp
    /\ pre' = {}
    /\ ing' = NoIng

(***************************************************************************)
(* create_multivector_collection(collection_name, size_img, size_txt).     *)
(* One request; the engine refuses a name that exists.  A transport        *)
(* failure leaves the caller with an error whether or not the engine       *)
(* carried the request out.                                                *)
(***************************************************************************)
\* The engine creates the collection.
EngineCreate(c, d1, d2) ==
    /\ schema' = [schema EXCEPT ![c] = CollectionSchema(d1, d2)]
    /\ created' = [created EXCEPT ![c] = <<d1, d2>>]

CreateCall(c, d1, d2) ==
    /\ pc = "idle"
    /\ call' = [op |-> "create", collection |-> c, img |-> d1, txt |-> d2]
    /\ \E transport \in BOOLEAN :
          /\ IF schema[c] = NoSchema
             THEN \E done \in (IF transport THEN BOOLEAN ELSE {TRUE}) :
                     IF done
                     THEN EngineCreate(c, d1, d2)
                     ELSE UNCHANGED <<schema, created>>
             ELSE UNCHANGED <<schema, created>>
          /\ outcome' = IF transport THEN Err("transport")
                        ELSE IF schema[c] = NoSchema THEN Ok("created")
                        ELSE Err("exists")
    /\ FreshLocals
    /\ UNCHANGED <<points, wal, nextId, pc, sent, proc>>

(***************************************************************************)
(* delete_collection(collection_name).  The collection goes with its       *)
(* records and with its pending writes.                                    *)
(***************************************************************************)
\* The engine's answers to a delete request.  It removes a collection that
\* exists; for one that does not it answers with an error, or with a response
\* whose result flag says that nothing was done.
DeleteReplies(c) ==
    IF schema[c] # NoSchema THEN {[kind |-> "ok", result |-> TRUE]}
    ELSE {[kind |-> "err", err |-> "notfound"], [kind |-> "ok", result |-> FALSE]}

\* self.client.delete_collection(collection_name).await?; Ok(())
DeleteOutcome(reply) ==
    IF reply.kind = "err" THEN Err(reply.err) ELSE Ok("deleted")

\* The engine removes the collection.
EngineDrop(c) ==
    /\ schema' = [schema EXCEPT ![c] = NoSchema]
    /\ created' = [created EXCEPT ![c] = <<>>]
    /\ points' = [points EXCEPT ![c] = {}]
    /\ wal' = SelectSeq(wal, LAMBDA w : w.collection # c)
    /\ sent' = [sent EXCEPT ![c] = {}]

DeleteCall(c) ==
    /\ pc = "idle"
    /\ call' = [op |-> "delete", collection |-> c, existed |-> schema[c] # NoSchema]
    /\ \E transport \in BOOLEAN :
          /\ IF schema[c] # NoSchema
             THEN \E done \in (IF transport THEN BOOLEAN ELSE {TRUE}) :
                     IF done
                     THEN EngineDrop(c)
                     ELSE UNCHANGED <<schema, created, points, wal, sent>>
             ELSE UNCHANGED <<schema, created, points, wal, sent>>
          /\ \E reply \in DeleteReplies(c) :
                outcome' = IF transport THEN Err("transport") ELSE DeleteOutcome(reply)
    /\ FreshLocals
    /\ UNCHANGED <<nextId, pc, proc>>

(***************************************************************************)
(* upsert_points_multivector(collection_name, vec_img, vec_txt, payload).  *)
(***************************************************************************)
\* The call builds its one request and sends it.
UpsertStart(c, vec_img, vec_txt, payload) ==
    /\ nextId <= MaxWrites
    /\ pc' = "upsert"
    /\ call' = [op |-> "upsert", collection |-> c, vec_img |-> vec_img,
                vec_txt |-> vec_txt, payload |-> payload, serial |-> nextId,
                id |-> PointId(vec_img, vec_txt, payload)]
    /\ req' = UpsertRequest(c, nextId, vec_img, vec_txt, payload)
    /\ pre' = points[c]
    /\ nextId' = nextId + 1
    /\ outcome' = NoOutcome
    /\ task' = [s \in Spaces |-> [st |-> "none"]]
    /\ slot' = [s \in Spaces |-> [st |-> "none"]]
    /\ imgResp' = NoResp
    /\ UNCHANGED <<engineVars, sent, proc>>

\* The call made by the application itself.
UpsertCall(c, vec_img, vec_txt, payload) ==
    /\ pc = "idle"
    /\ UpsertStart(c, vec_img, vec_txt, payload)
    /\ ing' = NoIng

\* Where the call returns to: to the loop of ingest_multivector when that
\* made the call, to the application otherwise.
ReturnPc == IF ing.st = "writing" THEN "ingest" ELSE "idle"

\* The engine receives the request: it refuses it, or logs it.
EngineAccept ==
    /\ pc = "upsert"
    /\ req.status = "sent"
    /\ IF schema[req.collection] = NoSchema
       THEN /\ req' = [req EXCEPT !.status = "notfound"]
            /\ UNCHANGED <<wal, sent>>
       ELSE IF \E i \in DOMAIN req.points : ~ValidPoint(req.collection, req.points[i])
       THEN /\ req' = [req EXCEPT !.status = "schema"]
            /\ UNCHANGED <<wal, sent>>
       ELSE /\ req' = [req EXCEPT !.status = "accepted"]
            /\ wal' = Append(wal, [serial |-> req.serial,
                                   collection |-> req.collection,
                                   points |-> req.points])
            /\ sent' = [sent EXCEPT ![req.collection] = @ \cup
                          {[serial |-> call.serial, id |-> call.id,
                            vec_img |-> call.vec_img, vec_txt |-> call.vec_txt,
                            payload |-> call.payload, acked |-> FALSE]}]
    /\ UNCHANGED <<schema, created, points, nextId, pc, call, outcome,
                   queryVars, pre, ing, proc>>

\* The engine applies its oldest logged write: all its points at once.
EngineApply ==
    /\ wal # <<>>
    /\ points' = [points EXCEPT ![Head(wal).collection] =
                      UpsertAll(@, Head(wal).points)]
    /\ wal' = Tail(wal)
    /\ UNCHANGED <<schema, created, nextId, pc, call, req, outcome,
                   queryVars, sent, pre, ing, proc>>

Logged(serial) == \E i \in DOMAIN wal : wal[i].serial = serial

\* The response arrives: the engine's refusal as Err, its acknowledgement as
\* Ok; with wait the engine acknowledges a write once it is applied.
UpsertReturn ==
    /\ pc = "upsert"
    /\ \/ /\ req.status \in {"notfound", "schema"}
          /\ outcome' = Err(req.status)
          /\ UNCHANGED sent
       \/ /\ req.status = "accepted"
          /\ req.wait => ~Logged(req.serial)
          /\ outcome' = Ok("acknowledged")
          /\ sent' = [sent EXCEPT ![req.collection] =
                        {IF e.serial = req.serial THEN [e EXCEPT !.acked = TRUE]
                         ELSE e : e \in @}]
    /\ pc' = ReturnPc
    /\ UNCHANGED <<engineVars, nextId, call, req, queryVars, pre, ing, proc>>

\* The transport fails: the request never arrives (it is still "sent"), or
\* the engine's response is lost.
UpsertTransportFail ==
    /\ pc = "upsert"
    /\ outcome' = Err("transport")
    /\ pc' = ReturnPc
    /\ UNCHANGED <<engineVars, nextId, call, req, queryVars, sent, pre, ing, proc>>

(***************************************************************************)
(* query_points_multivector(collection_name, image_vector, text_vector,    *)
(* limit).                                                                 *)
(***************************************************************************)
\* Up to its first await: two oneshot channels, two clients, two spawned
\* tasks, each with its request.
QueryCall(c, image_vector, text_vector, limit) ==
    /\ pc = "idle"
    /\ call' = [op |-> "query", collection |-> c, image_vector |-> image_vector,
                text_vector |-> text_vector, limit |-> limit]
    /\ pre' = {}
    /\ req' = NoReq
    /\ imgResp' = NoResp
    /\ ing' = NoIng
    /\ IF LimitAccepted(limit)
       THEN /\ slot' = [s \in Spaces |-> [st |-> "empty"]]
            /\ task' = [s \in Spaces |->
                          Launch(s, c, image_vector, text_vector, limit)]
            /\ pc' = "await_img"
            /\ outcome' = NoOutcome
       ELSE /\ slot' = [s \in Spaces |-> [st |-> "none"]]
            /\ task' = [s \in Spaces |-> [st |-> "none"]]
            /\ pc' = "idle"
            /\ outcome' = Err("limit")
    /\ UNCHANGED <<engineVars, nextId, sent, proc>>

\* A spawned task runs its query to the end and hands the response over; a
\* send to a channel whose receiver is gone is ignored (let _ = tx.send).
TaskRun(s) ==
    /\ task[s].st = "pending"
    /\ \E res \in QueryOutcomes(task[s].request.collection, task[s].request.using,
                                task[s].request.query, task[s].request.limit) :
          /\ task' = [task EXCEPT ![s] =
                        [st |-> IF res.kind = "ok" THEN "done" ELSE "panicked",
                         request |-> task[s].request,
                         seq |-> 1 + Cardinality({o \in Spaces :
                                        task[o].st \in {"done", "panicked"}})]]
          /\ slot' = [slot EXCEPT ![SlotOf(s)] =
                        IF @.st = "rx_dropped" THEN @ ELSE SlotAfterTask(res)]
    /\ UNCHANGED <<engineVars, nextId, pc, call, req, outcome, imgResp, sent, pre,
                   ing, proc>>

\* The coordinator panics: its future is dropped, and with it the receivers.
DropReceivers ==
    [s \in Spaces |-> IF slot[s].st = "empty" THEN [st |-> "rx_dropped"]
                      ELSE slot[s]]

\* The spawned tasks when the coordinator panics: their JoinHandles were
\* dropped at the spawn, so they are detached and run on.
TasksAbortedWithCaller ==
    [s \in Spaces |-> IF task[s].st = "pending"
                      THEN [st |-> "cancelled", request |-> task[s].request]
                      ELSE task[s]]

TasksAfterPanic == task

\* let image_response = rx_img.await.unwrap();
AwaitImage ==
    /\ pc = "await_img"
    /\ \/ /\ slot["image"].st = "full"
          /\ imgResp' = slot["image"].val
          /\ slot' = [slot EXCEPT !["image"].st = "taken"]
          /\ pc' = "await_txt"
          /\ UNCHANGED <<outcome, task>>
       \/ /\ slot["image"].st = "closed"
          /\ slot' = DropReceivers
          /\ task' = TasksAfterPanic
          /\ pc' = "panicked"
          /\ outcome' = Panic
          /\ UNCHANGED imgResp
    /\ UNCHANGED <<engineVars, nextId, call, req, sent, pre, ing, proc>>

\* let text_response = rx_txt.await.unwrap(); Ok((image_response, text_response))
AwaitText ==
    /\ pc = "await_txt"
    /\ \/ /\ slot["text"].st = "full"
          /\ slot' = [slot EXCEPT !["text"].st = "taken"]
          /\ pc' = "idle"
          /\ outcome' = Ok(ResultPair(imgResp, slot["text"].val))
          /\ UNCHANGED task
       \/ /\ slot["text"].st = "closed"
          /\ slot' = DropReceivers
          /\ task' = TasksAfterPanic
          /\ pc' = "panicked"
          /\ outcome' = Panic
    /\ UNCHANGED <<engineVars, nextId, call, req, imgResp, sent, pre, ing, proc>>

Next ==
    \/ \E c \in Names, sz \in Sizes : CreateCall(c, sz[1], sz[2])
    \/ \E c \in Names : DeleteCall(c)
    \/ \E c \in Names, vi, vt \in Vecs, p \in Payloads : UpsertCall(c, vi, vt, p)
    \/ EngineAccept
    \/ EngineApply
    \/ UpsertReturn
    \/ UpsertTransportFail
    \/ \E c \in Names, iv, tv \in Vecs, k \in Limits : QueryCall(c, iv, tv, k)
    \/ \E s \in Spaces : TaskRun(s)
    \/ AwaitImage
    \/ AwaitText

Spec == Init /\ [][Next]_vars

(***************************************************************************)
(* The query coordinator on its own: calls of query_points_multivector     *)
(* against an engine in a state earlier calls have left it in.             *)
(***************************************************************************)
\* The records a collection of the given sizes can hold after MaxWrites
\* upsert calls: one per identifier at most, vectors of the schema's lengths.
StoredSets(sz) ==
    LET R == {MultivectorPoint(i, vi, vt, p) :
                 i \in 1..MaxWrites, vi \in Vecs, vt \in Vecs, p \in Payloads}
        V == {r \in R : /\ Len(r.vectors["image"]) = sz[1]
                        /\ Len(r.vectors["text"]) = sz[2]}
    IN  {S \in SUBSET V : \A r1, r2 \in S : r1.id = r2.id => r1 = r2}

\* No collection, or a collection with every write acknowledged and applied.
QueryInit ==
    /\ \E sz \in Sizes \cup {<<0, 0>>} : \E S \in StoredSets(sz) :
          /\ schema = [c \in Names |-> CollectionSchema(sz[1], sz[2])]
          /\ created = [c \in Names |-> IF sz = <<0, 0>> THEN <<>> ELSE sz]
          /\ points = [c \in Names |-> S]
          /\ sent = [c \in Names |->
                       {[serial |-> r.id, id |-> r.id,
                         vec_img |-> r.vectors["image"],
                         vec_txt |-> r.vectors["text"],
                         payload |-> r.payload, acked |-> TRUE] : r \in S}]
    /\ wal = <<>>
    /\ nextId = MaxWrites + 1
    /\ pc = "idle"
    /\ call = NoCall
    /\ req = NoReq
    /\ outcome = NoOutcome
    /\ task = [s \in Spaces |-> [st |-> "none"]]
    /\ slot = [s \in Spaces |-> [st |-> "none"]]
    /\ imgResp = NoResp
    /\ pre = {}
    /\ ing = NoIng
    /\ proc = [p \in Callers |-> NoProc]

QueryNext ==
    \/ \E c \in Names, iv, tv \in Vecs, k \in Limits : QueryCall(c, iv, tv, k)
    \/ \E s \in Spaces : TaskRun(s)
    \/ AwaitImage
    \/ AwaitText

QuerySpec == QueryInit /\ [][QueryNext]_vars

\* The runtime polls the coordinator again when the channel it awaits is
\* written or closed: an await that stays possible is taken.
FairQuerySpec == QuerySpec /\ WF_vars(AwaitImage) /\ WF_vars(AwaitText)

(***************************************************************************)
(* ingest_multivector (src/src/vectorstore/ingestion.rs) with the          *)
(* embedding gateway (src/src/embeddings/text_embedding_inference.rs) and  *)
(* the image loader (src/src/utils.rs).                                    *)
(***************************************************************************)
\* Sample inputs: the first n image files and the first m texts.
ImageFiles == <<"a.png", "b.png", "c.png", "d.png">>
TextSamples == <<"t1", "t2", "t3", "t4">>
Prefixes(seq) == {SubSeq(seq, 1, n) : n \in 0..Min(MaxPairs, Len(seq))}

\* utils.rs: load_image reads the file, base64_encode encodes its bytes.
FileBytes(path) ==
    CASE path = "a.png" -> "A"
      [] path = "b.png" -> "B"
      [] path = "c.png" -> "C"
      [] OTHER -> "D"

Base64Encode(data) ==
    CASE data = "A" -> "QQ=="
      [] data = "B" -> "Qg=="
      [] data = "C" -> "Qw=="
      [] OTHER -> "RA=="

\* The embedding gateway: one vector per input, in the order of the inputs,
\* all of one length.
EmbedOf(input) ==
    CASE input \in {"t1", "t4", "Qg=="} -> <<1, 0>>
      [] input \in {"t2", "QQ==", "RA=="} -> <<0, 1>>
      [] OTHER -> <<1, 1>>

\* What the gateway may do with a request: it cannot be reached, it answers
\* with a body that is no list of vectors, or it answers with the vectors.
GatewayAnswers(inputs) ==
    {[kind |-> "unreachable"],
     [kind |-> "body", vectors |-> FALSE],
     [kind |-> "body", vectors |-> TRUE,
      data |-> [i \in DOMAIN inputs |-> EmbedOf(inputs[i])]]}

\* TextEmbeddingInference::embed: send().await?, text().await?, from_str(..)?
Embed(answer) ==
    IF answer.kind = "unreachable" THEN Err("transport")
    ELSE IF ~answer.vectors THEN Err("decode")
    ELSE Ok(answer.data)

\* ingest_multivector: the request bodies it sends to an embedding endpoint
\* for a list of inputs: one body with the whole list.
EmbedOneByOne(inputs) == [i \in DOMAIN inputs |-> <<inputs[i]>>]

EmbedBatch(inputs) == <<inputs>>

\* The requests to an endpoint, added to those already issued.
Requested(endpoint, inputs) ==
    ing.reqs \o [i \in DOMAIN EmbedBatch(inputs) |->
                   [endpoint |-> endpoint, inputs |-> EmbedBatch(inputs)[i]]]

\* ingest_multivector: the payload of one pair; the loop variable it calls
\* image_path runs over images, the base64 strings.
IngestPayload(image, text) == [image_path |-> image, text |-> text]

\* ingest_multivector: upsert_points_multivector(...).await? returns the
\* error of a failed write at once and goes on after a successful one.
AfterWriteIgnoreErr(res) == "next"

AfterWrite(res) == IF res.kind = "err" THEN "return" ELSE "next"

\* ingest_multivector: what it does with the lengths of its two lists
\* before it starts: nothing; lists of any lengths are taken.
LengthsAcceptedEqual(image_paths, texts) == Len(image_paths) = Len(texts)

LengthsAccepted(image_paths, texts) == TRUE

\* The body of ingest_multivector from its entry: the locals of the call.
IngestStart(c, image_paths, texts) ==
    /\ call' = [op |-> "ingest", collection |-> c, image_paths |-> image_paths,
                texts |-> texts]
    /\ ing' = [st |-> IF LengthsAccepted(image_paths, texts)
                      THEN "embed_txt" ELSE "rejected",
               collection |-> c,
               image_paths |-> image_paths, texts |-> texts,
               text_embeddings |-> <<>>, images |-> <<>>,
               image_embedding |-> <<>>, idx |-> 1, issued |-> 0,
               written |-> <<>>, reqs |-> <<>>,
               chats |-> IF ing.st = "chat" THEN ing.chats ELSE <<>>]
    /\ pc' = IF LengthsAccepted(image_paths, texts) THEN "ingest" ELSE "idle"
    /\ outcome' = IF LengthsAccepted(image_paths, texts) THEN NoOutcome
                  ELSE Err("length")
    /\ req' = NoReq
    /\ task' = [s \in Spaces |-> [st |-> "none"]]
    /\ slot' = [s \in Spaces |-> [st |-> "none"]]
    /\ imgResp' = NoResp
    /\ pre' = {}
    /\ UNCHANGED <<engineVars, nextId, sent, proc>>

IngestCall(c, image_paths, texts) ==
    /\ pc = "idle"
    /\ IngestStart(c, image_paths, texts)

\* let text_embeddings = text_embedding_client.embed(texts.clone()).await.unwrap();
EmbedTexts ==
    /\ pc = "ingest" /\ ing.st = "embed_txt"
    /\ \E answer \in GatewayAnswers(ing.texts) :
          LET res == Embed(answer) IN
          IF res.kind = "ok"
          THEN /\ ing' = [ing EXCEPT !.st = "load", !.text_embeddings = res.value,
                                     !.reqs = Requested("text", ing.texts)]
               /\ UNCHANGED <<pc, outcome>>
          ELSE /\ ing' = [ing EXCEPT !.st = "embed_failed",
                                     !.reqs = Requested("text", ing.texts)]
               /\ pc' = "panicked"
               /\ outcome' = Panic
    /\ UNCHANGED <<engineVars, nextId, call, req, queryVars, sent, pre, proc>>

\* for image_path in image_paths { load_image_as_base64(&image_path).await? .. }
LoadImages ==
    /\ pc = "ingest" /\ ing.st = "load"
    /\ \E readable \in (IF ing.image_paths = <<>> THEN {TRUE} ELSE BOOLEAN) :
          IF readable
          THEN /\ ing' = [ing EXCEPT !.st = "embed_img",
                             !.images = [i \in DOMAIN ing.image_paths |->
                                 Base64Encode(FileBytes(ing.image_paths[i]))]]
               /\ UNCHANGED <<pc, outcome>>
          ELSE /\ ing' = [ing EXCEPT !.st = "load_failed"]
               /\ pc' = "idle"
               /\ outcome' = Err("io")
    /\ UNCHANGED <<engineVars, nextId, call, req, queryVars, sent, pre, proc>>

\* let image_embedding = image_embedding_client.embed(images.clone()).await.unwrap();
EmbedImages ==
    /\ pc = "ingest" /\ ing.st = "embed_img"
    /\ \E answer \in GatewayAnswers(ing.images) :
          LET res == Embed(answer) IN
          IF res.kind = "ok"
          THEN /\ ing' = [ing EXCEPT !.st = "loop", !.image_embedding = res.value,
                                     !.reqs = Requested("image", ing.images)]
               /\ UNCHANGED <<pc, outcome>>
          ELSE /\ ing' = [ing EXCEPT !.st = "embed_failed",
                                     !.reqs = Requested("image", ing.images)]
               /\ pc' = "panicked"
               /\ outcome' = Panic
    /\ UNCHANGED <<engineVars, nextId, call, req, queryVars, sent, pre, proc>>

\* The pairs of images.iter().zip(texts.iter()).
Pairs == Min(Len(ing.images), Len(ing.texts))

\* One turn of the loop: the payload is built and the write is issued.
IngestWrite ==
    /\ pc = "ingest" /\ ing.st = "loop"
    /\ ing.idx <= Pairs
    /\ UpsertStart(ing.collection, ing.image_embedding[ing.idx],
                   ing.text_embeddings[ing.idx],
                   IngestPayload(ing.images[ing.idx], ing.texts[ing.idx]))
    /\ ing' = [ing EXCEPT !.st = "writing", !.issued = @ + 1]

\* The write has returned: ? returns its error, or the loop goes on.
IngestResume ==
    /\ pc = "ingest" /\ ing.st = "writing"
    /\ IF AfterWrite(outcome) = "return"
       THEN /\ ing' = [ing EXCEPT !.st = "write_failed"]
            /\ pc' = "idle"
            /\ UNCHANGED outcome
       ELSE /\ ing' = [ing EXCEPT !.st = "loop", !.idx = @ + 1,
                          !.written = IF outcome.kind = "ok"
                                      THEN Append(@, call.id) ELSE @]
            /\ outcome' = NoOutcome
            /\ UNCHANGED pc
    /\ UNCHANGED <<engineVars, nextId, call, req, queryVars, sent, pre, proc>>

\* The pairs are used up: Ok(())
IngestReturn ==
    /\ pc = "ingest" /\ ing.st = "loop"
    /\ ing.idx > Pairs
    /\ ing' = [ing EXCEPT !.st = "done"]
    /\ pc' = "idle"
    /\ outcome' = Ok("ingested")
    /\ UNCHANGED <<engineVars, nextId, call, req, queryVars, sent, pre, proc>>

IngestNext ==
    \/ \E c \in Names, sz \in Sizes : CreateCall(c, sz[1], sz[2])
    \/ \E c \in Names, ps \in Prefixes(ImageFiles), ts \in Prefixes(TextSamples) :
          IngestCall(c, ps, ts)
    \/ EmbedTexts
    \/ LoadImages
    \/ EmbedImages
    \/ IngestWrite
    \/ EngineAccept
    \/ EngineApply
    \/ UpsertReturn
    \/ UpsertTransportFail
    \/ IngestResume
    \/ IngestReturn

IngestSpec == Init /\ [][IngestNext]_vars

(***************************************************************************)
(* ingest_image_to_text (src/src/vectorstore/ingestion.rs) with the chat   *)
(* clients of src/src/llm.                                                 *)
(***************************************************************************)
\* The implementations of LlmClientChat.
ChatClients == {"openai", "anthropic"}

\* The description the language model gives of an image.
DescriptionOf(image_path) ==
    CASE image_path = "a.png" -> "t1"
      [] image_path = "b.png" -> "t2"
      [] image_path = "c.png" -> "t3"
      [] OTHER -> "t4"

\* What a chat request can come to: a failure (the image cannot be read, the
\* gateway cannot be reached or answers with an error), or a description.
ChatAnswers(image_path) ==
    {[kind |-> "failed"], [kind |-> "text", text |-> DescriptionOf(image_path)]}

\* send_message.  OpenAIClient: create_chat_completion(..).await.unwrap();
\* AnthropicClient: create_message(..).await?
SendMessage(client, answer) ==
    IF answer.kind = "text" THEN Ok(answer.text)
    ELSE IF client = "openai" THEN Panic
    ELSE Err("chat")

ImageToTextCall(c, image_paths, client) ==
    /\ pc = "idle"
    /\ pc' = "image_to_text"
    /\ call' = [op |-> "image_to_text", collection |-> c,
                image_paths |-> image_paths, client |-> client]
    /\ ing' = [st |-> "chat", collection |-> c, image_paths |-> image_paths,
               client |-> client, texts |-> <<>>, chats |-> <<>>,
               issued |-> 0, written |-> <<>>, reqs |-> <<>>]
    /\ outcome' = NoOutcome
    /\ req' = NoReq
    /\ task' = [s \in Spaces |-> [st |-> "none"]]
    /\ slot' = [s \in Spaces |-> [st |-> "none"]]
    /\ imgResp' = NoResp
    /\ pre' = {}
    /\ UNCHANGED <<engineVars, nextId, sent, proc>>

\* One turn of the first loop: send_message(model, &prompt, Some(image_path),
\* temperature).await? for the next image, and texts.push(..).
ChatCall ==
    /\ pc = "image_to_text" /\ ing.st = "chat"
    /\ Len(ing.texts) < Len(ing.image_paths)
    /\ LET image_path == ing.image_paths[Len(ing.texts) + 1] IN
       \E answer \in ChatAnswers(image_path) :
          LET res == SendMessage(ing.client, answer) IN
          /\ ing' = [ing EXCEPT
                        !.st = IF res.kind = "ok" THEN "chat" ELSE "chat_failed",
                        !.texts = IF res.kind = "ok" THEN Append(@, res.value) ELSE @,
                        !.chats = Append(@, image_path)]
          /\ pc' = IF res.kind = "ok" THEN pc
                   ELSE IF res.kind = "err" THEN "idle" ELSE "panicked"
          /\ outcome' = IF res.kind = "ok" THEN outcome ELSE res
    /\ UNCHANGED <<engineVars, nextId, call, req, queryVars, sent, pre, proc>>

\* ingest_multivector(collection_name, image_paths, texts, ..).await?; Ok(())
ImageToTextIngest ==
    /\ pc = "image_to_text" /\ ing.st = "chat"
    /\ Len(ing.texts) = Len(ing.image_paths)
    /\ IngestStart(ing.collection, ing.image_paths, ing.texts)

ImageToTextNext ==
    \/ \E c \in Names, sz \in Sizes : CreateCall(c, sz[1], sz[2])
    \/ \E c \in Names, ps \in Prefixes(ImageFiles), client \in ChatClients :
          ImageToTextCall(c, ps, client)
    \/ ChatCall
    \/ ImageToTextIngest
    \/ EmbedTexts
    \/ LoadImages
    \/ EmbedImages
    \/ IngestWrite
    \/ EngineAccept
    \/ EngineApply
    \/ UpsertReturn
    \/ UpsertTransportFail
    \/ IngestResume
    \/ IngestReturn

ImageToTextSpec == Init /\ [][ImageToTextNext]_vars

(***************************************************************************)
(* Several application processes on one engine: the exists-then-create     *)
(* protocol of examples/image_text_embeddings/main.rs.                     *)
(***************************************************************************)
SharedInit ==
    /\ schema = [c \in SharedNames |-> NoSchema]
    /\ created = [c \in SharedNames |-> <<>>]
    /\ points = [c \in SharedNames |-> {}]
    /\ wal = <<>>
    /\ nextId = 1
    /\ pc = "idle"
    /\ call = NoCall
    /\ req = NoReq
    /\ outcome = NoOutcome
    /\ task = [s \in Spaces |-> [st |-> "none"]]
    /\ slot = [s \in Spaces |-> [st |-> "none"]]
    /\ imgResp = NoResp
    /\ sent = [c \in SharedNames |-> {}]
    /\ pre = {}
    /\ ing = NoIng
    /\ proc = [p \in Callers |-> NoProc]

\* The application task of the model takes no step in these specifications.
AppIdle == UNCHANGED <<nextId, pc, call, req, outcome, task, slot, imgResp, pre, ing>>

\* check_collection: the engine's answer, or the transport's failure.
CheckReplies(c) == {Err("transport"), Ok(schema[c] # NoSchema)}

\* let collection_exists = vs_client.check_collection(collection_name).await.unwrap();
CheckCollection(p, c) ==
    /\ proc[p].pc \in {"idle", "done"}
    /\ \E res \in CheckReplies(c) :
          proc' = [proc EXCEPT ![p] =
                     IF res.kind = "ok"
                     THEN [pc |-> "checked", name |-> c, exists |-> res.value,
                           outcome |-> NoOutcome, made |-> proc[p].made]
                     ELSE [pc |-> "panicked", name |-> c, exists |-> TRUE,
                           outcome |-> Panic, made |-> proc[p].made]]
    /\ UNCHANGED <<engineVars, sent>>
    /\ AppIdle

\* if !collection_exists { ... }
ShouldCreateAlways(collection_exists) == TRUE

ShouldCreate(collection_exists) == ~collection_exists

\* if !collection_exists { create_multivector_collection(..).await.unwrap(); }
CreateIfMissing(p, d1, d2) ==
    /\ proc[p].pc = "checked"
    /\ LET c == proc[p].name IN
       IF ShouldCreate(proc[p].exists)
       THEN \E transport \in BOOLEAN :
               \E done \in (IF transport /\ schema[c] = NoSchema THEN BOOLEAN
                             ELSE {schema[c] = NoSchema}) :
                  /\ IF done THEN EngineCreate(c, d1, d2)
                     ELSE UNCHANGED <<schema, created>>
                  /\ proc' = [proc EXCEPT ![p] =
                        [pc |-> IF transport \/ schema[c] # NoSchema
                                THEN "panicked" ELSE "done",
                         name |-> c, exists |-> proc[p].exists,
                         outcome |-> IF transport THEN Err("transport")
                                     ELSE IF schema[c] = NoSchema THEN Ok("created")
                                     ELSE Err("exists"),
                         made |-> IF done THEN proc[p].made \cup {c}
                                  ELSE proc[p].made]]
       ELSE /\ proc' = [proc EXCEPT ![p] = [@ EXCEPT !.pc = "done",
                                               !.outcome = Ok("skipped")]]
            /\ UNCHANGED <<schema, created>>
    /\ UNCHANGED <<points, wal, sent>>
    /\ AppIdle

ProtocolNext ==
    \/ \E p \in Callers, c \in SharedNames : CheckCollection(p, c)
    \/ \E p \in Callers, sz \in Sizes : CreateIfMissing(p, sz[1], sz[2])

ProtocolSpec == SharedInit /\ [][ProtocolNext]_vars

(***************************************************************************)
(* Several application processes on one engine: delete_all_collections,    *)
(* as the tests of qdrant_client.rs use it (setup, clean_up) side by side. *)
(***************************************************************************)
\* tests::setup: a process creates a collection under a name not in use.
SetupCollection(p, c, d1, d2) ==
    /\ proc[p].pc \in {"idle", "done"}
    /\ schema[c] = NoSchema
    /\ EngineCreate(c, d1, d2)
    /\ UNCHANGED <<points, wal, sent, proc>>
    /\ AppIdle

\* The lists the engine may answer list_collections with.
Orders(S) ==
    {q \in [1..Cardinality(S) -> S] : \A i, j \in DOMAIN q : i # j => q[i] # q[j]}

\* get_collections: self.client.list_collections().await?
ListReplies ==
    {Err("transport")} \cup
    {Ok(q) : q \in Orders({c \in SharedNames : schema[c] # NoSchema})}

\* let collections = self.get_collections().await.unwrap();
DeleteAllList(p) ==
    /\ proc[p].pc \in {"idle", "done"}
    /\ \E res \in ListReplies :
          proc' = [proc EXCEPT ![p] =
                     IF res.kind = "ok"
                     THEN [pc |-> "deleting", list |-> res.value,
                           outcome |-> NoOutcome, made |-> proc[p].made]
                     ELSE [pc |-> "panicked", list |-> <<>>,
                           outcome |-> Panic, made |-> proc[p].made]]
    /\ UNCHANGED <<engineVars, sent>>
    /\ AppIdle

\* self.delete_collection(collection.name.clone()).await.unwrap();
DeleteAllStep(p) ==
    /\ proc[p].pc = "deleting"
    /\ proc[p].list # <<>>
    /\ LET c == Head(proc[p].list) IN
       \E transport \in BOOLEAN, reply \in DeleteReplies(c) :
          \E done \in (IF transport /\ schema[c] # NoSchema THEN BOOLEAN
                        ELSE {schema[c] # NoSchema}) :
             LET res == IF transport THEN Err("transport") ELSE DeleteOutcome(reply)
             IN  /\ IF done THEN EngineDrop(c)
                    ELSE UNCHANGED <<schema, created, points, wal, sent>>
                 /\ proc' = [proc EXCEPT ![p] =
                       IF res.kind = "ok"
                       THEN [@ EXCEPT !.list = Tail(@)]
                       ELSE [@ EXCEPT !.pc = "panicked", !.outcome = Panic]]
    /\ AppIdle

\* Ok(())
DeleteAllReturn(p) ==
    /\ proc[p].pc = "deleting"
    /\ proc[p].list = <<>>
    /\ proc' = [proc EXCEPT ![p] = [@ EXCEPT !.pc = "done",
                                        !.outcome = Ok("deleted_all")]]
    /\ UNCHANGED <<engineVars, sent>>
    /\ AppIdle

CleanupNext ==
    \/ \E p \in Callers, c \in SharedNames, sz \in Sizes :
          SetupCollection(p, c, sz[1], sz[2])
    \/ \E p \in Callers : DeleteAllList(p)
    \/ \E p \in Callers : DeleteAllStep(p)
    \/ \E p \in Callers : DeleteAllReturn(p)

CleanupSpec == SharedInit /\ [][CleanupNext]_vars

(***************************************************************************)
(* Properties of query_points_multivector.                                 *)
(***************************************************************************)
Terminal(s) == task[s].st \in {"done", "panicked"}
Failed(s) == task[s].st = "panicked"
QueryEnded == call.op = "query" /\ outcome.kind # "none"
HitIds(resp) == {resp.hits[i].id : i \in DOMAIN resp.hits}

\* C1: the coordinator's call never ends, by returning or by failing, while
\* one of its two sub-queries is still pending: when the call has ended, the
\* "image" and the "text" sub-query have both reached a terminal state.
C1_BothTerminalWhenCallEnds ==
    QueryEnded => \A s \in Spaces : Terminal(s)

\* C2: when a sub-query has failed, the call does not return a successful
\* pair; a pair that is returned has both halves from sub-queries that
\* succeeded, none stands in for a failed sibling.
C2_FailureFailsWholeCall ==
    /\ (call.op = "query" /\ \E s \in Spaces : Failed(s)) => outcome.kind # "ok"
    /\ (call.op = "query" /\ outcome.kind = "ok") =>
          \A s \in Spaces : task[s].st = "done" /\ slot[s].st = "taken"

\* The text sub-query failed after the image sub-query had succeeded and had
\* been received, and the call failed as a whole.
C2_Witness ==
    /\ QueryEnded
    /\ task["image"].st = "done"
    /\ slot["image"].st = "taken"
    /\ Failed("text")
    /\ outcome.kind # "ok"

\* C3: a sub-query's failure reaches the caller as the Err value of the
\* call's Result; it aborts neither the sub-task nor the calling task.
C3_FailureReturnedAsErr ==
    (QueryEnded /\ \E s \in Spaces : Failed(s)) =>
        (outcome.kind = "err" /\ pc # "panicked")

\* C4: whichever sub-query completes first, a successful call returns the
\* response to the "image" query with image_vector first and the response to
\* the "text" query with text_vector second, each as its sub-task sent it,
\* ranked in its own vector space and no longer than limit.
C4_PairByVectorSpace ==
    (call.op = "query" /\ outcome.kind = "ok") =>
        LET img == outcome.value[1]
            txt == outcome.value[2]
        IN  /\ img = slot["image"].val
            /\ txt = slot["text"].val
            /\ img.using = "image" /\ img.query = call.image_vector
            /\ txt.using = "text" /\ txt.query = call.text_vector
            /\ Len(img.hits) <= call.limit /\ Len(txt.hits) <= call.limit
            /\ \A i, j \in DOMAIN img.hits : i < j =>
                  ScoreGE(img.hits[i].vectors["image"],
                          img.hits[j].vectors["image"], call.image_vector)
            /\ \A i, j \in DOMAIN txt.hits : i < j =>
                  ScoreGE(txt.hits[i].vectors["text"],
                          txt.hits[j].vectors["text"], call.text_vector)

\* The text sub-query completed first, the call succeeded, and the two
\* responses rank the same two records in opposite orders.
C4_Witness ==
    /\ call.op = "query" /\ outcome.kind = "ok"
    /\ task["text"].seq = 1 /\ task["image"].seq = 2
    /\ Len(outcome.value[1].hits) = 2 /\ Len(outcome.value[2].hits) = 2
    /\ outcome.value[1].hits[1] = outcome.value[2].hits[2]
    /\ outcome.value[1].hits[2] = outcome.value[2].hits[1]
    /\ ~ScoreGE(outcome.value[1].hits[2].vectors["image"],
                outcome.value[1].hits[1].vectors["image"], call.image_vector)

\* C10 as stated: limit > 0 is validated first, so that a call with limit 0
\* launches no sub-query.
C10_LimitValidatedBeforeLaunch ==
    (call.op = "query" /\ call.limit = 0) =>
        \A s \in Spaces : task[s].st = "none"

\* C10 amended: the coordinator does not validate limit; for every limit, 0
\* included, its first step launches both sub-queries, each with the caller's
\* limit, and the call never ends with an error of its own about limit.
C10_LimitPassedUnvalidated ==
    call.op = "query" =>
        /\ outcome.kind # "err"
        /\ \A s \in Spaces :
              /\ task[s].st # "none"
              /\ task[s].request.limit = call.limit
              /\ task[s].request.using = s

\* A call with limit 0 has launched both sub-queries with limit 0.
C10_Witness ==
    /\ call.op = "query" /\ call.limit = 0
    /\ \A s \in Spaces : task[s].st = "pending" /\ task[s].request.limit = 0

\* C11: a limit of 0 is no error.  The call launches both sub-queries with
\* limit 0; the engine answers a zero-limit query on an existing collection
\* with an empty result; the call, when it returns, returns two empty result
\* sequences.  For every limit, each returned result sequence is at most
\* limit long.
C11_ZeroLimitReturnsEmpty ==
    /\ (call.op = "query" /\ outcome.kind = "ok") =>
          \A i \in 1..2 : Len(outcome.value[i].hits) <= call.limit
    /\ (call.op = "query" /\ call.limit = 0) =>
          /\ outcome.kind # "err"
          /\ outcome.kind = "ok" =>
                \A i \in 1..2 : outcome.value[i].hits = <<>>
          /\ \A s \in Spaces :
                LET r == task[s].request IN
                (/\ task[s].st = "pending"
                 /\ schema[r.collection] # NoSchema
                 /\ Len(r.query) = schema[r.collection][r.using]) =>
                    QueryOutcomes(r.collection, r.using, r.query, r.limit) =
                        {Err("transport"),
                         Ok([using |-> s, query |-> r.query, hits |-> <<>>])}

\* A call with limit 0 and the two vectors of a stored record returned two
\* empty result sequences.
C11_Witness ==
    /\ call.op = "query" /\ outcome.kind = "ok" /\ call.limit = 0
    /\ \E r \in points[call.collection] :
          /\ r.vectors["image"] = call.image_vector
          /\ r.vectors["text"] = call.text_vector
    /\ outcome.value[1].hits = <<>>
    /\ outcome.value[2].hits = <<>>

\* The coordinator is at the await of the channel of space s.
AwaitPc(s) == IF s = "image" THEN "await_img" ELSE "await_txt"

C19_BothLaunchedBeforeWait ==
    /\ [](pc \in {"await_img", "await_txt"} =>
            \A s \in Spaces : task[s].st # "none" /\ slot[s].st # "none")
    /\ [][(pc = "idle" /\ pc' # "idle") =>
            /\ pc' = "await_img"
            /\ \A s \in Spaces :
                  /\ task'[s].st = "pending"
                  /\ slot'[s].st = "empty"
                  /\ task'[s].request.using = s]_vars
    /\ [][\A s \in Spaces :
            (task[s].st = "pending" /\ task'[s].st # "pending") =>
                /\ \A o \in Spaces \ {s} : task'[o] = task[o] /\ slot'[o] = slot[o]
                /\ UNCHANGED <<engineVars, pc, imgResp, outcome>>]_vars

\* The text sub-query has completed and handed its response over while the
\* image sub-query is still pending and the coordinator waits for it.
C19_Witness ==
    /\ pc = "await_img"
    /\ task["text"].st = "done" /\ slot["text"].st = "full"
    /\ task["image"].st = "pending" /\ slot["image"].st = "empty"

\* C20: single-use handoff.  Within a call a channel changes only in these
\* ways: its own sub-task writes the response of its own query into it while
\* it is empty, or closes it by failing; the coordinator, at the await of that
\* channel, consumes what was written; the coordinator drops it when it gives
\* up.  So each channel is written at most once and consumed at most once; a
\* call that returns successfully has consumed both, each written once, and
\* builds its pair from the two values it consumed.
C20_SingleUseHandoff ==
    /\ [][pc # "idle" => \A s \in Spaces :
            \/ slot'[s] = slot[s]
            \/ /\ slot[s].st = "empty" /\ slot'[s].st = "full"
               /\ task[s].st = "pending" /\ task'[s].st = "done"
               /\ slot'[s].val.using = s
               /\ slot'[s].val.query = task[s].request.query
            \/ /\ slot[s].st = "empty" /\ slot'[s].st = "closed"
               /\ task[s].st = "pending" /\ task'[s].st = "panicked"
            \/ /\ slot[s].st = "full" /\ slot'[s] = [slot[s] EXCEPT !.st = "taken"]
               /\ pc = AwaitPc(s) /\ pc' # pc
            \/ /\ slot[s].st = "empty" /\ slot'[s].st = "rx_dropped"
               /\ pc' = "panicked"]_vars
    /\ [](pc = "await_txt" =>
            slot["image"].st = "taken" /\ imgResp = slot["image"].val)
    /\ []((call.op = "query" /\ outcome.kind = "ok") =>
            /\ \A s \in Spaces : slot[s].st = "taken" /\ task[s].st = "done"
            /\ outcome.value = <<slot["image"].val, slot["text"].val>>)

\* A call returned its pair: the image sub-query completed first, and both
\* channels were written and consumed.
C20_Witness ==
    /\ call.op = "query" /\ outcome.kind = "ok"
    /\ task["image"].seq = 1 /\ task["text"].seq = 2
    /\ \A s \in Spaces : slot[s].st = "taken"
    /\ outcome.value[1].hits # <<>>

(***************************************************************************)
(* Properties of upsert_points_multivector and of the collection.          *)
(***************************************************************************)
\* The record an upsert call is to store: both named vectors and the payload.
CompleteRecord(e) ==
    [id |-> e.id, vectors |-> [image |-> e.vec_img, text |-> e.vec_txt],
     payload |-> e.payload]

UpsertEnded == call.op = "upsert" /\ pc = "idle"
Acked(c) == {e \in sent[c] : e.acked}
InHits(resp, e) ==
    \E i \in DOMAIN resp.hits :
        resp.hits[i].id = e.id /\ resp.hits[i].payload = e.payload
\* The other records of the collection that score at least as high in space s
\* against q as the vector v does.
AtLeastAsGood(c, s, id, v, q) ==
    {r \in points[c] : r.id # id /\ s \in DOMAIN r.vectors
                       /\ ScoreGE(r.vectors[s], v, q)}

\* C5 as stated: a successful query with limit >= 1 and the two vectors of an
\* acknowledged record returns that record, with its payload, in the image
\* result set and in the text result set.
C5_AckedRecordReturnedForAnyLimit ==
    (call.op = "query" /\ outcome.kind = "ok" /\ call.limit >= 1) =>
        \A e \in Acked(call.collection) :
            (e.vec_img = call.image_vector /\ e.vec_txt = call.text_vector) =>
                InHits(outcome.value[1], e) /\ InHits(outcome.value[2], e)

\* C5 amended: no record is acknowledged before it is visible, and a
\* successful query with the record's two vectors returns it, with its
\* payload, in each result set whose limit exceeds the number of other records
\* that score as high in that space.
C5_AckedRecordVisible ==
    /\ \A c \in Names : \A e \in Acked(c) : CompleteRecord(e) \in points[c]
    /\ (call.op = "query" /\ outcome.kind = "ok" /\ call.limit >= 1) =>
          \A e \in Acked(call.collection) :
              (e.vec_img = call.image_vector /\ e.vec_txt = call.text_vector) =>
                  /\ call.limit > Cardinality(AtLeastAsGood(call.collection,
                          "image", e.id, e.vec_img, call.image_vector))
                       => InHits(outcome.value[1], e)
                  /\ call.limit > Cardinality(AtLeastAsGood(call.collection,
                          "text", e.id, e.vec_txt, call.text_vector))
                       => InHits(outcome.value[2], e)

\* A collection of two records was queried with limit 1 and the vectors of
\* one of them, acknowledged before, and both result sets hold that record.
C5_Witness ==
    /\ call.op = "query" /\ outcome.kind = "ok" /\ call.limit = 1
    /\ Cardinality(points[call.collection]) = 2
    /\ \E e \in Acked(call.collection) :
          /\ e.vec_img = call.image_vector /\ e.vec_txt = call.text_vector
          /\ InHits(outcome.value[1], e) /\ InHits(outcome.value[2], e)

\* C6: the writes the engine accepted have pairwise distinct identifiers,
\* whatever their vectors and payload; no write overwrites a record: the
\* collection holds one record per accepted write, and after N successful
\* writes (none failed after acceptance) exactly N records with N identifiers.
C6_FreshIdentifiers ==
    \A c \in Names :
        LET pending == {i \in DOMAIN wal : wal[i].collection = c} IN
        /\ \A e1, e2 \in sent[c] : e1.serial # e2.serial => e1.id # e2.id
        /\ \A e \in Acked(c) : \E r \in points[c] : r.id = e.id
        /\ Cardinality(points[c]) + Cardinality(pending) = Cardinality(sent[c])
        /\ Acked(c) = sent[c] =>
              /\ Cardinality(points[c]) = Cardinality(Acked(c))
              /\ {r.id : r \in points[c]} = {e.id : e \in Acked(c)}
              /\ Cardinality({r.id : r \in points[c]}) = Cardinality(Acked(c))

\* Two successful writes with the same vectors and payload: two records.
C6_Witness ==
    \E c \in Names : \E e1, e2 \in Acked(c) :
        /\ e1.serial # e2.serial
        /\ e1.vec_img = e2.vec_img /\ e1.vec_txt = e2.vec_txt
        /\ e1.payload = e2.payload
        /\ Cardinality(points[c]) = 2

\* C7: every stored record has exactly the named vectors "image" and "text",
\* the caller's image vector under "image", the caller's text vector under
\* "text", and the caller's payload; every upsert request holds one point.
C7_TwoNamedVectorsOnePoint ==
    /\ \A c \in Names : \A r \in points[c] :
          /\ DOMAIN r.vectors = {"image", "text"}
          /\ \E e \in sent[c] : r = CompleteRecord(e)
    /\ pc = "upsert" =>
          /\ Len(req.points) = 1
          /\ req.collection = call.collection
          /\ DOMAIN req.points[1].vectors = {"image", "text"}
          /\ req.points[1].vectors["image"] = call.vec_img
          /\ req.points[1].vectors["text"] = call.vec_txt
          /\ req.points[1].payload = call.payload
    /\ \A i \in DOMAIN wal : Len(wal[i].points) = 1

\* A stored record whose image vector and text vector differ.
C7_Witness ==
    \E c \in Names : \E r \in points[c] :
        /\ DOMAIN r.vectors = {"image", "text"}
        /\ r.vectors["image"] # r.vectors["text"]
        /\ \E e \in Acked(c) : r = CompleteRecord(e)

\* C14: delete_collection returns success only when the named collection
\* existed and was removed; on a name that does not exist it returns an error.
C14_DeleteMissingFails ==
    (call.op = "delete" /\ outcome.kind = "ok") =>
        (call.existed /\ schema[call.collection] = NoSchema)

\* A step of query_points_multivector: of its coordinator or of a sub-task.
QueryStep ==
    /\ call'.op = "query"
    /\ <<pc, call, outcome, task, slot, imgResp>>' #
          <<pc, call, outcome, task, slot, imgResp>>

\* C18: records are immutable.  As long as a collection is not deleted, no
\* step changes or removes a record it holds: every record stays, with its
\* identifier, its named vectors and its payload, through later upsert calls
\* and queries; and a step of a query changes neither the set of collections
\* nor any record.
C18_RecordsImmutable ==
    /\ [][\A c \in Names :
            (schema[c] # NoSchema /\ schema'[c] # NoSchema) =>
                points[c] \subseteq points'[c]]_vars
    /\ [][QueryStep => UNCHANGED <<schema, points, wal>>]_vars

\* Two records written by two acknowledged calls are both stored, the first
\* unchanged by the second write, and a query has returned since.
C18_Witness ==
    /\ call.op = "query" /\ outcome.kind = "ok"
    /\ \E e1, e2 \in Acked(call.collection) :
          /\ e1.serial < e2.serial
          /\ CompleteRecord(e1) \in points[call.collection]
          /\ CompleteRecord(e2) \in points[call.collection]

\* C8 as stated: after the call, either it returned success and the
\* collection holds exactly one new complete record, or it returned an error
\* and the collection's records are those from before the call.
C8_ErrorLeavesCollectionUnchanged ==
    UpsertEnded =>
        IF outcome.kind = "ok"
        THEN /\ CompleteRecord(call) \notin pre
             /\ points[call.collection] = pre \cup {CompleteRecord(call)}
        ELSE points[call.collection] = pre

\* C8 amended: the call stores its record whole or not at all.  After
\* success the collection holds the call's complete record; after the
\* engine's refusal it holds no record of the call and none is pending; after
\* a transport failure it holds no record of the call or the complete one.
\* No record is ever partial, and no earlier record is lost.
C8_AtomicRecordInsert ==
    /\ \A c \in Names : \A r \in points[c] :
          DOMAIN r.vectors = {"image", "text"} /\ r.payload \in Payloads
    /\ call.op = "upsert" => pre \subseteq points[call.collection]
    /\ UpsertEnded =>
          LET new == {r \in points[call.collection] : r.id = call.id} IN
          /\ outcome.kind = "ok" => new = {CompleteRecord(call)}
          /\ (outcome.kind = "err" /\ req.status \in {"sent", "schema", "notfound"})
                => new = {} /\ ~Logged(call.serial)
          /\ outcome.kind = "err" => new \subseteq {CompleteRecord(call)}

\* The call returned a transport error and its complete record is stored.
C8_Witness ==
    /\ UpsertEnded
    /\ outcome = Err("transport")
    /\ CompleteRecord(call) \in points[call.collection]
    /\ CompleteRecord(call) \notin pre

\* C9: in a collection created with sizes (d1, d2) every record has an image
\* vector of length d1 and a text vector of length d2; a write with another
\* length fails, with the engine's schema-mismatch error when the engine's
\* response arrives, and stores nothing.
C9_DimensionalityInvariant ==
    /\ \A c \in Names : schema[c] # NoSchema =>
          \A r \in points[c] :
              /\ Len(r.vectors["image"]) = created[c][1]
              /\ Len(r.vectors["text"]) = created[c][2]
    /\ (UpsertEnded /\ schema[call.collection] # NoSchema
          /\ (\/ Len(call.vec_img) # created[call.collection][1]
              \/ Len(call.vec_txt) # created[call.collection][2])) =>
          /\ outcome.kind = "err"
          /\ outcome.err # "transport" => outcome.err = "schema"
          /\ req.status \in {"sent", "schema"}
          /\ \A r \in points[call.collection] : r.id # call.id
          /\ ~Logged(call.serial)

\* A write with a text vector of the wrong length was refused with the schema
\* error by a collection that holds a record.
C9_Witness ==
    /\ UpsertEnded
    /\ outcome = Err("schema")
    /\ Len(call.vec_img) = created[call.collection][1]
    /\ Len(call.vec_txt) # created[call.collection][2]
    /\ points[call.collection] # {}
    /\ points[call.collection] = pre

(***************************************************************************)
(* Properties of the exists-then-create protocol.                          *)
(***************************************************************************)
\* The processes whose create request made collection c.
Makers(c) == {p \in Callers : c \in proc[p].made}

\* C15 as stated: under the exists-then-create protocol no create request
\* ever meets a name that exists, whatever the interleaving of the callers.
C15_NoRedefinitionError ==
    \A p \in Callers : proc[p].outcome # Err("exists")

\* C15 amended: a caller issues create only after check_collection told it
\* that the name does not exist; every name is created at most once; and a
\* create request meets an existing name only when another caller created the
\* name after this caller's check: never with a single caller.
C15_RedefinitionOnlyByRace ==
    /\ \A c \in SharedNames : Cardinality(Makers(c)) <= 1
    /\ \A p \in Callers :
          /\ proc[p].outcome.kind = "err" /\ proc[p].pc = "panicked"
                => ~proc[p].exists
          /\ (proc[p].outcome.kind = "ok" /\ proc[p].outcome.value = "created")
                => (~proc[p].exists /\ Makers(proc[p].name) = {p})
          /\ proc[p].outcome = Err("exists") =>
                /\ ~proc[p].exists
                /\ \E q \in Callers \ {p} : Makers(proc[p].name) = {q}

\* Two callers found the name missing; one created it, and the create of the
\* other met the existing name.
C15_Witness ==
    \E p, q \in Callers :
        /\ p # q
        /\ proc[p].pc = "panicked" /\ proc[p].outcome = Err("exists")
        /\ ~proc[p].exists
        /\ proc[q].pc = "done" /\ proc[q].outcome = Ok("created")
        /\ proc[q].name = proc[p].name /\ ~proc[q].exists

(***************************************************************************)
(* Properties of delete_all_collections.                                   *)
(***************************************************************************)
\* C16: delete_all_collections reports the failure of the listing, and of
\* the deletion of any one collection, through its Result: no such failure
\* aborts the calling process.
C16_FailureReportedThroughResult ==
    \A p \in Callers : proc[p].outcome.kind # "panic"

(***************************************************************************)
(* Properties of ingest_multivector.                                       *)
(***************************************************************************)
\* The record ingest_multivector stores for its i-th pair, under identifier id.
PairRecord(id, i) ==
    [id |-> id,
     vectors |-> [image |-> ing.image_embedding[i], text |-> ing.text_embeddings[i]],
     payload |-> IngestPayload(ing.images[i], ing.texts[i])]

\* C12: ingest_multivector is fail-fast and does not roll back.  Writes are
\* issued one at a time in the order of the pairs, each after all the earlier
\* ones returned Ok; when the write for a pair fails the call returns that
\* error and issues no further write; the records of the pairs written before
\* stay in the collection.
C12_FailFastNoRollback ==
    ing.st \notin {"none", "embed_txt", "load", "embed_img"} =>
        /\ ing.st = "writing" => ing.issued = Len(ing.written) + 1
        /\ ing.st \in {"loop", "done"} =>
              ing.issued = Len(ing.written) /\ ing.idx = ing.issued + 1
        /\ ing.st = "write_failed" =>
              /\ pc = "idle" /\ outcome.kind = "err"
              /\ ing.issued = Len(ing.written) + 1
              /\ ing.issued = ing.idx
        /\ \A i \in 1..Len(ing.written) :
              PairRecord(ing.written[i], i) \in points[ing.collection]

\* Of three pairs the first was written, the write of the second failed, and
\* the call returned the error: the first record is stored, and the engine
\* was sent nothing for the third pair.
C12_Witness ==
    /\ ing.st = "write_failed" /\ outcome.kind = "err"
    /\ Len(ing.images) = 3 /\ Len(ing.texts) = 3
    /\ Len(ing.written) = 1 /\ ing.issued = 2
    /\ PairRecord(ing.written[1], 1) \in points[ing.collection]
    /\ \A r \in points[ing.collection] : r.payload.text # ing.texts[3]
    /\ \A e \in sent[ing.collection] : e.payload.text # ing.texts[3]

\* C13: a failure of the embedding gateway during ingest_multivector comes
\* back to the caller as the Err value of the call's Result.
C13_EmbedFailureReturnedAsErr ==
    ing.st = "embed_failed" => (pc = "idle" /\ outcome.kind = "err")

\* The record stored under the identifier of the i-th write of the call.
WrittenRecord(i) ==
    CHOOSE r \in points[ing.collection] : r.id = ing.written[i]

\* C21: a fully successful call with N images and N texts has issued N
\* writes in the order of the pairs, and the i-th of them carries the
\* embedding of the i-th image as "image" vector, the embedding of the i-th
\* text as "text" vector, the i-th text as the payload's "text" and the i-th
\* image path as the payload's "image_path".
C21_PositionalPairing ==
    (ing.st = "done" /\ Len(ing.image_paths) = Len(ing.texts)) =>
        /\ ing.issued = Len(ing.texts)
        /\ Len(ing.written) = Len(ing.texts)
        /\ \A i, j \in DOMAIN ing.written : i < j => ing.written[i] < ing.written[j]
        /\ \A i \in DOMAIN ing.written :
              /\ \E r \in points[ing.collection] : r.id = ing.written[i]
              /\ WrittenRecord(i).vectors["image"] =
                    EmbedOf(Base64Encode(FileBytes(ing.image_paths[i])))
              /\ WrittenRecord(i).vectors["text"] = EmbedOf(ing.texts[i])
              /\ WrittenRecord(i).payload.text = ing.texts[i]
              /\ WrittenRecord(i).payload.image_path = ing.image_paths[i]

\* C22: one call of ingest_multivector sends one request to the text
\* endpoint, with all the texts, and then one request to the image endpoint,
\* with all the encoded images, whatever the lengths of the lists; both
\* requests come before the first write.
C22_OneRequestPerEndpoint ==
    ing.st \in {"embed_txt", "load", "embed_img", "embed_failed", "load_failed",
                "loop", "writing", "write_failed", "done"} =>
        /\ Len(ing.reqs) <= 2
        /\ ing.st = "embed_txt" => ing.reqs = <<>>
        /\ ing.st \in {"load", "embed_img", "load_failed"} =>
              ing.reqs = <<[endpoint |-> "text", inputs |-> ing.texts]>>
        /\ ing.st = "embed_failed" =>
              /\ Len(ing.reqs) >= 1
              /\ ing.reqs[1] = [endpoint |-> "text", inputs |-> ing.texts]
              /\ Len(ing.reqs) = 2 =>
                    ing.reqs[2] = [endpoint |-> "image", inputs |-> ing.images]
        /\ ing.st \in {"loop", "writing", "write_failed", "done"} =>
              /\ ing.reqs = <<[endpoint |-> "text", inputs |-> ing.texts],
                              [endpoint |-> "image", inputs |-> ing.images]>>
              /\ Len(ing.images) = Len(ing.image_paths)
        /\ ing.issued > 0 => Len(ing.reqs) = 2

\* The first write of a call with three images and three texts is in flight:
\* two requests were sent, each with three inputs.
C22_Witness ==
    /\ ing.st = "writing" /\ ing.issued = 1
    /\ Len(ing.texts) = 3 /\ Len(ing.image_paths) = 3
    /\ Len(ing.reqs) = 2
    /\ Len(ing.reqs[1].inputs) = 3 /\ Len(ing.reqs[2].inputs) = 3

\* C23: ingest_multivector does not compare the lengths of its lists.  A
\* call is never refused for them; a call that ends successfully has issued
\* and stored one write per index below the shorter length, pair by pair in
\* order, and none for the surplus elements of the longer list.
C23_ShorterLengthDecides ==
    /\ ing.st # "rejected"
    /\ outcome # Err("length")
    /\ ing.st = "done" =>
          /\ outcome.kind = "ok" /\ pc = "idle"
          /\ ing.issued = Min(Len(ing.image_paths), Len(ing.texts))
          /\ Len(ing.written) = Min(Len(ing.image_paths), Len(ing.texts))
          /\ \A i \in DOMAIN ing.written :
                PairRecord(ing.written[i], i) \in points[ing.collection]

\* A call with three images and two texts returned success with two records
\* written; nothing of the third image was sent to the engine.
C23_Witness ==
    /\ ing.st = "done" /\ outcome.kind = "ok"
    /\ Len(ing.image_paths) = 3 /\ Len(ing.texts) = 2
    /\ Len(ing.written) = 2
    /\ \A e \in sent[ing.collection] : e.payload.image_path # ing.images[3]

\* C24: ingest_image_to_text asks for one description per image, one after
\* the other in the order of the input, pairs the i-th description with the
\* i-th image, asks for all of them before any embedding request or write,
\* and when a chat call fails it returns an error to its caller with no
\* record written.
C24_ChatsBeforeIngestFailFast ==
    ing.st # "none" =>
        /\ Len(ing.chats) <= Len(ing.image_paths)
        /\ ing.chats = SubSeq(ing.image_paths, 1, Len(ing.chats))
        /\ ing.st = "chat" =>
              /\ Len(ing.texts) = Len(ing.chats)
              /\ \A i \in DOMAIN ing.texts :
                    ing.texts[i] = DescriptionOf(ing.image_paths[i])
        /\ (Len(ing.reqs) > 0 \/ ing.issued > 0) =>
              /\ ing.chats = ing.image_paths
              /\ \A i \in DOMAIN ing.image_paths :
                    ing.texts[i] = DescriptionOf(ing.image_paths[i])
        /\ ing.st = "chat_failed" =>
              /\ pc = "idle"
              /\ outcome.kind = "err"
              /\ ing.issued = 0
              /\ ing.reqs = <<>>

\* Both sub-queries of the call the coordinator is waiting in have reached a
\* terminal state.
BothTerminalWhileAwaiting ==
    /\ call.op = "query" /\ pc \in {"await_img", "await_txt"}
    /\ \A s \in Spaces : Terminal(s)

\* C25: termination of the coordinator.  Once both sub-queries have reached
\* a terminal state the call ends: with the pair when both succeeded, by
\* failing when one of them failed.  The coordinator never stays at the await
\* of a channel whose sub-task has terminated: that await can be taken, and
\* it is left, whichever order the two sub-tasks finished in.
C25_CoordinatorTerminates ==
    /\ BothTerminalWhileAwaiting ~> QueryEnded
    /\ (pc = "await_img" /\ Terminal("image")) ~> (pc # "await_img")
    /\ (pc = "await_txt" /\ Terminal("text")) ~> (pc # "await_txt")
    /\ []((pc = "await_img" /\ Terminal("image")) => ENABLED AwaitImage)
    /\ []((pc = "await_txt" /\ Terminal("text")) => ENABLED AwaitText)
    /\ []((QueryEnded /\ \A s \in Spaces : Terminal(s)) =>
            /\ (\A s \in Spaces : task[s].st = "done") =>
                  (outcome.kind = "ok" /\ pc = "idle")
            /\ (\E s \in Spaces : Failed(s)) => outcome.kind # "ok")

\* The text sub-query finished first and the image sub-query second, the
\* coordinator waiting for the image channel all the while; then the call
\* returned its pair.
C25_Witness ==
    /\ QueryEnded /\ outcome.kind = "ok" /\ pc = "idle"
    /\ task["text"].st = "done" /\ task["text"].seq = 1
    /\ task["image"].st = "done" /\ task["image"].seq = 2

=============================================================================
